---- MODULE Spec2Model ----
(***************************************************************************)
(* auto-send-clips: the media-size-reduction pipeline of notification.go   *)
(* (compressFile and its audio, resolution and bitrate ladders) together   *)
(* with its only caller, App.SendToDiscord of app.go.                      *)
(*                                                                         *)
(* Paths are sequences of one-character strings, so that the string        *)
(* operations of the code (filepath.Ext, strings.TrimSuffix, fmt.Sprintf)  *)
(* are computed and two paths are equal exactly when the strings are.      *)
(* The file system is a function from the existing paths to their sizes.   *)
(***************************************************************************)
EXTENDS Integers, Sequences, FiniteSets, TLC

----------------------------------------------------------------------------
(* Bounds of the model *)

\* encoder outputs are as large as the ceiling plus MaxOver bytes
MaxOver == 1

----------------------------------------------------------------------------
(* Program constants *)

BytesPerMB == 1048576
BitrateGate == 300000
MinBitrate == 100000
AudioBitrateGate == 500000

----------------------------------------------------------------------------
(* Strings *)

Digits == <<"0", "1", "2", "3", "4", "5", "6", "7", "8", "9">>

RECURSIVE Itoa(_)
\* fmt.Sprintf("%d", n) for n >= 0
Itoa(n) == IF n < 10 THEN <<Digits[n + 1]>>
           ELSE Itoa(n \div 10) \o <<Digits[(n % 10) + 1]>>

IsPathSeparator(c) == c \in {"/", "\\"}

RECURSIVE ExtFrom(_, _)
ExtFrom(path, k) ==
    IF k < 1 \/ IsPathSeparator(path[k]) THEN <<>>
    ELSE IF path[k] = "." THEN SubSeq(path, k, Len(path))
    ELSE ExtFrom(path, k - 1)

\* filepath.Ext: the suffix beginning at the final dot of the final element
Ext(path) == ExtFrom(path, Len(path))

HasSuffix(s, suffix) ==
    /\ Len(suffix) <= Len(s)
    /\ SubSeq(s, Len(s) - Len(suffix) + 1, Len(s)) = suffix

TrimSuffix(s, suffix) ==
    IF HasSuffix(s, suffix) THEN SubSeq(s, 1, Len(s) - Len(suffix)) ELSE s

\* strings.TrimSuffix(p, filepath.Ext(p))
BaseOf(p) == TrimSuffix(p, Ext(p))

DotMp3 == <<".", "m", "p", "3">>
DotMp4 == <<".", "m", "p", "4">>
Compressed == <<"_", "c", "o", "m", "p", "r", "e", "s", "s", "e", "d">>
Temp == <<"_", "t", "e", "m", "p", "_">>
Bitrate == <<"_", "b", "i", "t", "r", "a", "t", "e", "_">>
Audio == <<"_", "a", "u", "d", "i", "o">>

----------------------------------------------------------------------------
(* Paths derived from the input path *)

\* extractAudio: outputPath
ExtractAudioPath(videoPath) == BaseOf(videoPath) \o Audio \o DotMp3

\* compressAudioAggressively: outputPath
AudioOutputPath(input) == BaseOf(input) \o Compressed \o DotMp3

\* compressAudioAggressively: tempPath of setting k (0-based)
AudioTempPath(input, k) ==
    IF k > 0 THEN BaseOf(input) \o Temp \o Itoa(k) \o DotMp3
    ELSE AudioOutputPath(input)

\* VideoOutputPath with the "_compressed" suffix forgotten: the output of an
\* .mp4 source is the source itself (C7 depends on the suffix)
VideoOutputPathNoSuffix(input) == BaseOf(input) \o DotMp4

\* compressVideoAggressively: outputPath
VideoOutputPath(input) == BaseOf(input) \o Compressed \o DotMp4

\* compressVideoAggressively: tempPath of strategy k (0-based)
VideoTempPath(input, k) ==
    IF k > 0 THEN BaseOf(input) \o Temp \o Itoa(k) \o DotMp4
    ELSE VideoOutputPath(input)

\* compressVideoByBitrate: tempPath of tier k (0-based)
BitrateTempPath(input, output, k) ==
    IF k > 0 THEN BaseOf(input) \o Bitrate \o Itoa(k) \o DotMp4
    ELSE output

\* Medal TV's clips.json, rewritten by updateMedalTVClipTitle
ClipsJSONPath == <<"M", "e", "d", "a", "l", "/", "c", "l", "i", "p", "s", ".", "j", "s", "o", "n">>

----------------------------------------------------------------------------
(* The duration prober *)

IsSpace(c) == c \in {" ", "\n", "\r", "\t"}

RECURSIVE TrimLeft(_)
TrimLeft(s) == IF s # <<>> /\ IsSpace(Head(s)) THEN TrimLeft(Tail(s)) ELSE s

RECURSIVE TrimRight(_)
TrimRight(s) ==
    IF s # <<>> /\ IsSpace(s[Len(s)]) THEN TrimRight(SubSeq(s, 1, Len(s) - 1)) ELSE s

\* strings.TrimSpace
TrimSpace(s) == TrimRight(TrimLeft(s))

IsDigit(c) == \E d \in 1..10 : Digits[d] = c
DigitVal(c) == (CHOOSE d \in 1..10 : Digits[d] = c) - 1

RECURSIVE Atoi(_)
Atoi(s) == IF s = <<>> THEN 0 ELSE 10 * Atoi(SubSeq(s, 1, Len(s) - 1)) + DigitVal(s[Len(s)])

\* strconv.ParseFloat on the decimal notation ffprobe prints
\* ("<digits>" or "<digits>.<digits>"); the value is kept in milliseconds
\* (the texts of ProbeTexts have at most three decimals).
ParseFloat(s) ==
    LET dots == {k \in 1..Len(s) : s[k] = "."}
        wellFormed == /\ s # <<>>
                      /\ \A k \in 1..Len(s) : IsDigit(s[k]) \/ s[k] = "."
                      /\ Cardinality(dots) <= 1
                      /\ \E k \in 1..Len(s) : IsDigit(s[k])
        dot == IF dots = {} THEN Len(s) + 1 ELSE CHOOSE k \in dots : TRUE
        whole == SubSeq(s, 1, dot - 1)
        frac == SubSeq(s \o <<"0", "0", "0", "0">>, dot + 1, dot + 3)
    IN  IF wellFormed
        THEN [err |-> FALSE, ms |-> Atoi(whole) * 1000 + Atoi(frac)]
        ELSE [err |-> TRUE, ms |-> 0]

\* getVideoDuration answering a default of 60 s instead of an error (C8
\* depends on the prober's errors being reported)
getVideoDurationDefault(out) ==
    LET durationStr == TrimSpace(out.text)
    IN  IF out.fail \/ durationStr = <<>> \/ ParseFloat(durationStr).err
        THEN [err |-> FALSE, ms |-> 60000]
        ELSE ParseFloat(durationStr)

\* getVideoDuration on the prober's result out = [fail, text]
getVideoDuration(out) ==
    LET durationStr == TrimSpace(out.text)
    IN  IF out.fail THEN [err |-> TRUE, ms |-> 0]
        ELSE IF durationStr = <<>> THEN [err |-> TRUE, ms |-> 0]
        ELSE ParseFloat(durationStr)

\* the bitrate computed in integers, maxSizeBytes * 8 / 10 * 8 over the
\* duration cut to whole seconds
TargetBitrateIntegers(maxSizeBytes, ms) ==
    (((maxSizeBytes * 8) \div 10) * 8) \div (ms \div 1000)

\* int64(float64(maxSizeBytes) * 0.8 * 8 / videoDuration), the duration in
\* milliseconds: floor(maxSizeBytes * 6400 / ms), computed in two parts to
\* stay within 32-bit integers.
TargetBitrate(maxSizeBytes, ms) ==
    LET n == maxSizeBytes * 64
    IN  (n \div ms) * 100 + ((n % ms) * 100) \div ms

\* the gate written with <= (C3 depends on the comparison being strict)
UseBitrateLadderInclusive(targetBitrate) == targetBitrate <= BitrateGate

\* the gate of compressVideoAggressively
UseBitrateLadder(targetBitrate) == targetBitrate < BitrateGate

\* the exhaustion fallback without the halving (C10 depends on it)
ExhaustionBitrateFull(targetBitrate) == targetBitrate

\* the starting bitrate handed to the bitrate ladder after the resolution
\* ladder is exhausted
ExhaustionBitrate(targetBitrate) == targetBitrate \div 2

----------------------------------------------------------------------------
(* The file system and the external tools *)

Exists(fsys, path) == path \in DOMAIN fsys

\* a tool writes (or overwrites, -y) path with size bytes
WriteFile(fsys, path, size) ==
    [q \in DOMAIN fsys \cup {path} |-> IF q = path THEN size ELSE fsys[q]]

\* os.Remove (its error is ignored by every caller)
Remove(fsys, path) == [q \in DOMAIN fsys \ {path} |-> fsys[q]]

\* os.Rename(from, to) replacing to; ok is the outcome of the system call
\* (its error is ignored by every caller)
Rename(fsys, from, to, ok) ==
    IF ok /\ Exists(fsys, from)
    THEN [q \in (DOMAIN fsys \ {from}) \cup {to} |-> IF q = to THEN fsys[from] ELSE fsys[q]]
    ELSE fsys

\* the sizes an encoder output can have, around the ceiling
EncSizes(ceiling) == {1} \cup {ceiling + d : d \in 0..MaxOver}

\* the outcomes of one ffmpeg run: it fails before opening the output, it
\* fails after writing a part of it (one byte here), or it succeeds
EncOutcomes(ceiling) ==
    {[err |-> TRUE, wrote |-> FALSE, size |-> 0], [err |-> TRUE, wrote |-> TRUE, size |-> 1]}
    \cup {[err |-> FALSE, wrote |-> TRUE, size |-> sz] : sz \in EncSizes(ceiling)}

\* runFFmpegCommand with output path "path" and outcome o
runFFmpegCommand(fsys, path, o) ==
    IF o.wrote THEN WriteFile(fsys, path, o.size) ELSE fsys

\* Fits written with < (C2 depends on a result of exactly the ceiling being
\* promoted)
FitsStrict(fsys, path, maxSizeBytes) ==
    Exists(fsys, path) /\ fsys[path] < maxSizeBytes

\* Fits without the size comparison (C6 depends on it)
FitsAny(fsys, path, maxSizeBytes) == Exists(fsys, path)

\* os.Stat(path) succeeded and the size is acceptable
Fits(fsys, path, maxSizeBytes) ==
    Exists(fsys, path) /\ fsys[path] <= maxSizeBytes

\* break instead of continue after a failed encoder run (C9 depends on the
\* continue)
NextAfterErrorBreak(k, n) == n

\* the same strategy tried again after a failed encoder run
NextAfterErrorRetry(k, n) == k

\* the loop index after a failed encoder run (continue)
NextAfterError(k, n) == k + 1

\* the loop restarted from its first strategy after an oversized result
NextAfterOversizeRestart(k, n) == 0

\* the loop index after an oversized result
NextAfterOversize(k, n) == k + 1

----------------------------------------------------------------------------
(* Inputs *)

\* a.mp4, a (no extension), d.x/a (a dot in the directory only),
\* a_compressed.mp4 (an earlier output sent again), a.b.mp3
Sources ==
    { <<"a", ".", "m", "p", "4">>,
      <<"a">>,
      <<"d", ".", "x", "/", "a">>,
      <<"a">> \o Compressed \o DotMp4,
      <<"a", ".", "b">> \o DotMp3 }

\* config.MaxFileSize, in MB
MaxFileSizes == {1, 10}

\* what ffprobe prints: nothing, white space, N/A, and durations that put
\* the derived bitrate on both sides of the gate (223.696 s gives exactly
\* 300000 with 10 MB)
ProbeTexts ==
    { <<>>,
      <<" ", "\n">>,
      <<"N", "/", "A", "\n">>,
      <<"2", "2", "3", ".", "6", "9", "6", "\n">>,
      <<"2", "2", "3", ".", "6", "9", "7", "\n">>,
      <<"6", "0", "\n">>,
      <<"1", "2", "0", "\n">>,
      <<"7", ".", "5", "\n">> }

ProbeResults ==
    {[fail |-> TRUE, text |-> <<>>]} \cup {[fail |-> FALSE, text |-> t] : t \in ProbeTexts}

\* isMedalTVClip: the file lies within the Medal TV clip folder (d.x here)
MedalFolder == <<"d", ".", "x">>
isMedalTVClip(path) ==
    Len(MedalFolder) <= Len(path) /\ SubSeq(path, 1, Len(MedalFolder)) = MedalFolder

----------------------------------------------------------------------------
(* Strategy tables *)

audioSettings ==
    << [bitrate |-> "128k", sampleRate |-> "44100", channels |-> "2"],
       [bitrate |-> "96k",  sampleRate |-> "44100", channels |-> "2"],
       [bitrate |-> "64k",  sampleRate |-> "22050", channels |-> "2"],
       [bitrate |-> "48k",  sampleRate |-> "22050", channels |-> "2"],
       [bitrate |-> "32k",  sampleRate |-> "22050", channels |-> "1"],
       [bitrate |-> "24k",  sampleRate |-> "16000", channels |-> "1"],
       [bitrate |-> "16k",  sampleRate |-> "11025", channels |-> "1"] >>

compressionStrategies ==
    << [crf |-> "23", scale |-> "",               fps |-> "fps=30", audioBitrate |-> "128k"],
       [crf |-> "25", scale |-> "",               fps |-> "fps=30", audioBitrate |-> "96k"],
       [crf |-> "23", scale |-> "scale=1280:720", fps |-> "fps=30", audioBitrate |-> "96k"],
       [crf |-> "25", scale |-> "scale=1280:720", fps |-> "fps=30", audioBitrate |-> "64k"],
       [crf |-> "23", scale |-> "scale=960:540",  fps |-> "fps=30", audioBitrate |-> "64k"],
       [crf |-> "25", scale |-> "scale=960:540",  fps |-> "fps=24", audioBitrate |-> "48k"],
       [crf |-> "23", scale |-> "scale=854:480",  fps |-> "fps=30", audioBitrate |-> "48k"],
       [crf |-> "25", scale |-> "scale=854:480",  fps |-> "fps=24", audioBitrate |-> "48k"],
       [crf |-> "23", scale |-> "scale=640:360",  fps |-> "fps=24", audioBitrate |-> "32k"],
       [crf |-> "25", scale |-> "scale=640:360",  fps |-> "fps=20", audioBitrate |-> "32k"],
       [crf |-> "25", scale |-> "scale=426:240",  fps |-> "fps=20", audioBitrate |-> "32k"],
       [crf |-> "27", scale |-> "scale=426:240",  fps |-> "fps=15", audioBitrate |-> "24k"] >>

\* compressVideoByBitrate: bitrates
bitrates(targetBitrate) ==
    << targetBitrate, targetBitrate \div 2, targetBitrate \div 3,
       targetBitrate \div 4, targetBitrate \div 6, MinBitrate >>

\* compressVideoByBitrate: scales and fpsList
scales == <<"", "scale=iw*0.8:ih*0.8", "scale=iw*0.6:ih*0.6", "scale=iw*0.5:ih*0.5",
            "scale=iw*0.4:ih*0.4", "scale=iw*0.3:ih*0.3">>
fpsList == <<"", "fps=30", "fps=24", "fps=20", "fps=15", "fps=10">>

NumAudioSettings == Len(audioSettings)
NumStrategies == Len(compressionStrategies)
NumBitrates == Len(bitrates(0))

\* the buffer size set to the same multiple as the maximum rate
RateCapsEqual(bitrate) == [maxrate |-> bitrate * 2, bufsize |-> bitrate * 2]

\* compressVideoByBitrate: the -maxrate and -bufsize arguments of a tier
RateCaps(bitrate) == [maxrate |-> bitrate * 2, bufsize |-> bitrate * 4]

\* the comparison of the audio bitrate turned round
BitrateAudioInverted(bitrate) == IF bitrate < AudioBitrateGate THEN "64k" ELSE "32k"

\* compressVideoByBitrate: audioBitrate of a tier
BitrateAudio(bitrate) == IF bitrate > AudioBitrateGate THEN "64k" ELSE "32k"

----------------------------------------------------------------------------
(* State *)

VARIABLES
    fs,             \* the file system: path -> size
    pc,             \* the statement SendToDiscord / compressFile is at
    maxFileSize,    \* a.config.MaxFileSize (MB)
    webhookSet,     \* a.config.WebhookURL # ""
    filePath,       \* SendToDiscord: the file to send
    audioOnly,      \* SendToDiscord: audioOnly
    finalPath,      \* SendToDiscord: finalPath
    cleanup,        \* SendToDiscord: cleanup
    ndefers,        \* SendToDiscord: deferred cleanup closures registered
    sendRet,        \* SendToDiscord: "none" while running, "nil" or the error
    uploads,        \* files accepted by Discord: <<[path, size]>>
    stats,          \* config.TotalClips, SessionClips, TotalSize
    inputPath,      \* compressFile: inputPath
    isAudio,        \* compressFile: isAudio
    maxSizeBytes,   \* compressFile: maxSizeBytes
    outputPath,     \* compressors: outputPath
    videoDuration,  \* compressVideoAggressively: videoDuration (ms)
    targetBitrate,  \* compressVideoAggressively: targetBitrate
    brTarget,       \* compressVideoByBitrate: targetBitrate (parameter)
    brMaxSize,      \* compressVideoByBitrate: maxSizeBytes (parameter)
    i,              \* loop index of the running ladder
    retPath,        \* compressFile: returned path (<<>> is "")
    retErr,         \* compressFile: returned error ("" is nil)
    probe,          \* history: what the prober returned
    log,            \* history: the encoder invocations, in order (emitted: the events sent so far)
    last,           \* history: outcome of the latest encoder invocation
    fitAt,          \* history: positions of log whose run succeeded within the ceiling
    allOver,        \* history: every ladder run so far succeeded above the ceiling
    promoted,       \* history: <<kind, idx>> of the promoted strategy
    renameFailed,   \* history: an os.Rename call failed
    targets,        \* history: paths given to an encoder, os.Rename or os.Remove
    before,         \* history: the paths that existed when compressFile was called
    events          \* the progress events emitted

sendVars == <<maxFileSize, webhookSet, filePath, audioOnly, finalPath, cleanup,
              ndefers, sendRet, uploads, stats>>
callVars == <<inputPath, isAudio, maxSizeBytes, outputPath, videoDuration,
              targetBitrate, brTarget, brMaxSize, i, retPath, retErr>>
histVars == <<probe, log, last, fitAt, allOver, promoted, renameFailed, targets,
              before, events>>

\* the update check (version package)
VARIABLES
    tagName,        \* CheckForUpdates: release.TagName, as GitHub returns it
    current,        \* CheckForUpdates: current.Version
    latest,         \* CheckForUpdates: updateInfo.LatestVersion (<<>> until the release is read)
    available       \* CheckForUpdates: updateInfo.Available

versionVars == <<tagName, current, latest, available>>

\* no update check is running
VersionIdle == tagName = <<>> /\ current = <<>> /\ latest = <<>> /\ available = FALSE

\* the handling of one file system event of a watched folder
VARIABLES
    clip,           \* the clip of the watched folder that a send is compressing
    eventOp,        \* handleWatcherEvent: event.Op
    eventName,      \* handleWatcherEvent: event.Name
    evpc,           \* the statement the handling is at
    notified        \* handleNewVideo: the filePath given to ShowNotification (<<>>: none)

eventVars == <<clip, eventOp, eventName, evpc, notified>>

\* no event is being handled
EventIdle ==
    clip = <<>> /\ eventOp = "none" /\ eventName = <<>> /\ evpc = "done" /\ notified = <<>>

\* the file watcher: App fields and the goroutines running startFileWatcher
VARIABLES
    watcherMutex,   \* a.watcherMutex: 0 unlocked, else the goroutine holding it
    isMonitoring,   \* a.isMonitoring
    watchers,       \* a.watchers: path |-> the goroutine that created the open watcher
    monitoredPaths, \* a.monitoredPaths
    activePaths,    \* what getActivePaths returns for the configuration
    wpc,            \* per goroutine: the statement startFileWatcher is at
    visible,        \* per goroutine: the values its unsynchronised read of isMonitoring may return
    born,           \* goroutines started so far
    calls,          \* API calls made so far
    restartId,      \* history: the goroutine started by RestartMonitoring while monitoring was
                    \* active, 0 if none or once another call or a failed creation followed
    foreignClosed,  \* history: <<g, h>> when the deferred cleanup of g closed a watcher of h
    badUnlock       \* history: an Unlock by a goroutine that did not hold the mutex

watchVars == <<watcherMutex, isMonitoring, watchers, monitoredPaths, activePaths,
               wpc, visible, born, calls, restartId, foreignClosed, badUnlock>>

\* the App as NewApp leaves it, no goroutine started
WatchIdle ==
    /\ watcherMutex = 0 /\ isMonitoring = FALSE /\ watchers = <<>> /\ monitoredPaths = {}
    /\ activePaths = {} /\ wpc = <<>> /\ visible = <<>> /\ born = 0 /\ calls = 0
    /\ restartId = 0 /\ foreignClosed = {} /\ badUnlock = FALSE

\* the state of the components a specification does not exercise
otherVars == <<versionVars, eventVars, watchVars>>
OthersIdle == VersionIdle /\ EventIdle /\ WatchIdle

vars == <<fs, pc, sendVars, callVars, histVars, otherVars>>

NoProbe == [fail |-> FALSE, text |-> <<"-">>]
NoRun == [kind |-> "none", idx |-> 0, err |-> FALSE, wrote |-> FALSE, size |-> 0]

\* one entry of log
Invocation(kind, idx, path, vb, ab, crf, vf) ==
    [kind |-> kind, idx |-> idx, path |-> path, vb |-> vb, ab |-> ab, crf |-> crf, vf |-> vf]

\* the -vf filter chain: the non-empty filters among scale and fps, in this order
videoFilters(scale, fps) ==
    (IF scale # "" THEN <<scale>> ELSE <<>>) \o (IF fps # "" THEN <<fps>> ELSE <<>>)

Run(kind, idx, o) ==
    [kind |-> kind, idx |-> idx, err |-> o.err, wrote |-> o.wrote, size |-> o.size]

\* emitProgress (a.ctx is set by startup before the frontend can call in)
emitProgress(evs, ev) == Append(evs, ev)

\* the progress counted from one: (i + 1) / N
ProgressInfoOneBased(num, den, isComplete) ==
    [stage |-> "compression", num |-> num + 1, den |-> den, isComplete |-> isComplete, error |-> ""]

ProgressInfo(num, den, isComplete) ==
    [stage |-> "compression", num |-> num, den |-> den, isComplete |-> isComplete, error |-> ""]

Init ==
    /\ maxFileSize \in MaxFileSizes
    /\ webhookSet \in BOOLEAN
    /\ filePath \in Sources
    /\ audioOnly \in BOOLEAN
    /\ \E present \in BOOLEAN, over \in 0..1 :
          fs = IF present
               THEN (ClipsJSONPath :> 1) @@ (filePath :> (maxFileSize * BytesPerMB + over))
               ELSE (ClipsJSONPath :> 1)
    /\ pc = "SendToDiscord"
    /\ finalPath = <<>> /\ cleanup = FALSE /\ ndefers = 0 /\ sendRet = "none"
    /\ uploads = <<>>
    /\ stats = [TotalClips |-> 0, SessionClips |-> 0, TotalSize |-> 0]
    /\ inputPath = <<>> /\ isAudio = FALSE /\ maxSizeBytes = 0 /\ outputPath = <<>>
    /\ videoDuration = 0 /\ targetBitrate = 0 /\ brTarget = 0 /\ brMaxSize = 0 /\ i = 0
    /\ retPath = <<>> /\ retErr = ""
    /\ probe = NoProbe /\ log = <<>> /\ last = NoRun /\ fitAt = {} /\ allOver = TRUE
    /\ promoted = <<>> /\ renameFailed = FALSE /\ targets = {} /\ before = {} /\ events = <<>>
    /\ OthersIdle

----------------------------------------------------------------------------
(* SendToDiscord, up to the call of compressFile *)

\* the webhook check and the first os.Stat(filePath)
SendToDiscord ==
    /\ pc = "SendToDiscord"
    /\ IF ~webhookSet
       THEN /\ sendRet' = "webhook URL not set"
            /\ pc' = "returned"
            /\ finalPath' = finalPath
       ELSE IF ~Exists(fs, filePath)
       THEN /\ sendRet' = "error getting file info"
            /\ pc' = "returned"
            /\ finalPath' = finalPath
       ELSE IF audioOnly
       THEN /\ pc' = "extractAudio"
            /\ UNCHANGED <<sendRet, finalPath>>
       ELSE /\ finalPath' = filePath
            /\ pc' = "checkSize"
            /\ sendRet' = sendRet
    /\ UNCHANGED <<fs, maxFileSize, webhookSet, filePath, audioOnly, cleanup, ndefers,
                   uploads, stats, callVars, histVars>>
    /\ UNCHANGED otherVars

\* the audioOnly branch: extractAudio and the first deferred cleanup
SendExtractAudio(o) ==
    /\ pc = "extractAudio"
    /\ LET out == ExtractAudioPath(filePath)
       IN  /\ fs' = runFFmpegCommand(fs, out, o)
           /\ log' = Append(log, Invocation("extract", 0, out, 0, "128k", "", <<>>))
           /\ last' = Run("extract", 0, o)
           /\ targets' = targets \cup {out}
           /\ IF o.err
              THEN /\ sendRet' = "error extracting audio"
                   /\ pc' = "returned"
                   /\ UNCHANGED <<finalPath, cleanup, ndefers>>
              ELSE /\ finalPath' = out
                   /\ cleanup' = TRUE
                   /\ ndefers' = ndefers + 1
                   /\ pc' = "checkSize"
                   /\ sendRet' = sendRet
    /\ UNCHANGED <<maxFileSize, webhookSet, filePath, audioOnly, uploads, stats, callVars,
                   probe, fitAt, allOver, promoted, renameFailed, before, events>>
    /\ UNCHANGED otherVars

\* the comparison with the limit written with >=: a file of exactly the
\* limit is compressed
SendCheckSizeInclusive ==
    /\ pc = "checkSize"
    /\ IF ~Exists(fs, finalPath)
       THEN /\ sendRet' = "error getting final file info"
            /\ pc' = "defers"
            /\ UNCHANGED <<inputPath, isAudio>>
       ELSE IF fs[finalPath] >= maxFileSize * 1024 * 1024
       THEN /\ inputPath' = finalPath
            /\ isAudio' = audioOnly
            /\ pc' = "compressFile"
            /\ sendRet' = sendRet
       ELSE /\ pc' = "upload"
            /\ UNCHANGED <<sendRet, inputPath, isAudio>>
    /\ UNCHANGED <<fs, maxFileSize, webhookSet, filePath, audioOnly, finalPath, cleanup,
                   ndefers, uploads, stats, maxSizeBytes, outputPath, videoDuration,
                   targetBitrate, brTarget, brMaxSize, i, retPath, retErr, histVars>>
    /\ UNCHANGED otherVars

\* os.Stat(finalPath) and the comparison with the limit
SendCheckSize ==
    /\ pc = "checkSize"
    /\ IF ~Exists(fs, finalPath)
       THEN /\ sendRet' = "error getting final file info"
            /\ pc' = "defers"
            /\ UNCHANGED <<inputPath, isAudio>>
       ELSE IF fs[finalPath] > maxFileSize * 1024 * 1024
       THEN /\ inputPath' = finalPath
            /\ isAudio' = audioOnly
            /\ pc' = "compressFile"
            /\ sendRet' = sendRet
       ELSE /\ pc' = "upload"
            /\ UNCHANGED <<sendRet, inputPath, isAudio>>
    /\ UNCHANGED <<fs, maxFileSize, webhookSet, filePath, audioOnly, finalPath, cleanup,
                   ndefers, uploads, stats, maxSizeBytes, outputPath, videoDuration,
                   targetBitrate, brTarget, brMaxSize, i, retPath, retErr, histVars>>
    /\ UNCHANGED otherVars

----------------------------------------------------------------------------
(* compressFile *)

\* compressFile with the isAudio test left out: every file goes to the video
\* compressor
compressFileVideoOnly ==
    /\ pc = "compressFile"
    /\ maxSizeBytes' = maxFileSize * 1024 * 1024
    /\ outputPath' = VideoOutputPath(inputPath)
    /\ pc' = "probe"
    /\ i' = 0
    /\ before' = DOMAIN fs
    /\ UNCHANGED <<fs, sendVars, inputPath, isAudio, videoDuration, targetBitrate,
                   brTarget, brMaxSize, retPath, retErr, probe, log, last, fitAt,
                   allOver, promoted, renameFailed, targets, events>>
    /\ UNCHANGED otherVars

\* the dispatch of compressFile and the first line of the compressor
compressFile ==
    /\ pc = "compressFile"
    /\ maxSizeBytes' = maxFileSize * 1024 * 1024
    /\ IF isAudio
       THEN /\ outputPath' = AudioOutputPath(inputPath)
            /\ pc' = "audioLoop"
       ELSE /\ outputPath' = VideoOutputPath(inputPath)
            /\ pc' = "probe"
    /\ i' = 0
    /\ before' = DOMAIN fs
    /\ UNCHANGED <<fs, sendVars, inputPath, isAudio, videoDuration, targetBitrate,
                   brTarget, brMaxSize, retPath, retErr, probe, log, last, fitAt,
                   allOver, promoted, renameFailed, targets, events>>
    /\ UNCHANGED otherVars

\* one iteration of the loop of compressAudioAggressively
AudioAttempt(o, renameOk) ==
    /\ pc = "audioLoop"
    /\ i < NumAudioSettings
    /\ LET tempPath == AudioTempPath(inputPath, i)
           fs1 == runFFmpegCommand(fs, tempPath, o)
           fit == ~o.err /\ Fits(fs1, tempPath, maxSizeBytes)
           move == fit /\ tempPath # outputPath
           drop == ~o.err /\ ~fit /\ tempPath # outputPath
       IN  /\ log' = Append(log, Invocation("audio", i, tempPath, 0, audioSettings[i + 1].bitrate, "", <<>>))
           /\ last' = Run("audio", i, o)
           /\ fitAt' = IF ~o.err /\ o.wrote /\ o.size <= maxSizeBytes
                       THEN fitAt \cup {Len(log) + 1} ELSE fitAt
           /\ allOver' = (allOver /\ ~o.err /\ o.size > maxSizeBytes)
           /\ targets' = targets \cup {tempPath} \cup (IF move THEN {outputPath} ELSE {})
           /\ renameFailed' = (renameFailed \/ (move /\ ~renameOk))
           /\ fs' = IF move THEN Rename(fs1, tempPath, outputPath, renameOk)
                    ELSE IF drop THEN Remove(fs1, tempPath)
                    ELSE fs1
           /\ IF fit
              THEN /\ retPath' = outputPath
                   /\ retErr' = ""
                   /\ promoted' = <<"audio", i>>
                   /\ pc' = "compressReturn"
                   /\ i' = i
              ELSE /\ i' = IF o.err THEN NextAfterError(i, NumAudioSettings)
                                    ELSE NextAfterOversize(i, NumAudioSettings)
                   /\ UNCHANGED <<retPath, retErr, promoted, pc>>
    /\ UNCHANGED <<sendVars, inputPath, isAudio, maxSizeBytes, outputPath, videoDuration,
                   targetBitrate, brTarget, brMaxSize, probe, before, events>>
    /\ UNCHANGED otherVars

\* the statement after the loop of compressAudioAggressively
AudioExhausted ==
    /\ pc = "audioLoop"
    /\ i >= NumAudioSettings
    /\ retPath' = <<>>
    /\ retErr' = "could not compress audio to target size"
    /\ pc' = "compressReturn"
    /\ UNCHANGED <<fs, sendVars, inputPath, isAudio, maxSizeBytes, outputPath,
                   videoDuration, targetBitrate, brTarget, brMaxSize, i, histVars>>
    /\ UNCHANGED otherVars

\* compressVideoAggressively: getVideoDuration and its error branch
ProbeDuration(r) ==
    /\ pc = "probe"
    /\ probe' = r
    /\ LET d == getVideoDuration(r)
       IN  IF d.err
           THEN /\ pc' = "fallback"
                /\ videoDuration' = videoDuration
           ELSE /\ videoDuration' = d.ms
                /\ pc' = "gate"
    /\ UNCHANGED <<fs, sendVars, inputPath, isAudio, maxSizeBytes, outputPath,
                   targetBitrate, brTarget, brMaxSize, i, retPath, retErr,
                   log, last, fitAt, allOver, promoted, renameFailed, targets,
                   before, events>>
    /\ UNCHANGED otherVars

\* compressVideoAggressively: the target bitrate and the gate
BitrateGateCheck ==
    /\ pc = "gate"
    /\ LET tb == TargetBitrate(maxSizeBytes, videoDuration)
       IN  /\ targetBitrate' = tb
           /\ IF UseBitrateLadder(tb)
              THEN /\ brTarget' = tb
                   /\ brMaxSize' = maxSizeBytes
                   /\ pc' = "bitrateLoop"
              ELSE /\ UNCHANGED <<brTarget, brMaxSize>>
                   /\ pc' = "resLoop"
    /\ i' = 0
    /\ UNCHANGED <<fs, sendVars, inputPath, isAudio, maxSizeBytes, outputPath,
                   videoDuration, retPath, retErr, histVars>>
    /\ UNCHANGED otherVars

\* one iteration of the loop of compressVideoAggressively
ResAttempt(o, renameOk) ==
    /\ pc = "resLoop"
    /\ i < NumStrategies
    /\ LET tempPath == VideoTempPath(inputPath, i)
           strategy == compressionStrategies[i + 1]
           fs1 == runFFmpegCommand(fs, tempPath, o)
           fit == ~o.err /\ Fits(fs1, tempPath, maxSizeBytes)
           move == fit /\ tempPath # outputPath
           drop == o.err \/ (~fit /\ tempPath # outputPath)
           ev1 == emitProgress(events, ProgressInfo(i, NumStrategies, FALSE))
       IN  /\ log' = Append(log, Invocation("res", i, tempPath, 0, strategy.audioBitrate, strategy.crf,
                                            videoFilters(strategy.scale, strategy.fps))
                                 @@ [emitted |-> Len(ev1)])
           /\ last' = Run("res", i, o)
           /\ fitAt' = IF ~o.err /\ o.wrote /\ o.size <= maxSizeBytes
                       THEN fitAt \cup {Len(log) + 1} ELSE fitAt
           /\ allOver' = (allOver /\ ~o.err /\ o.size > maxSizeBytes)
           /\ targets' = targets \cup {tempPath} \cup (IF move THEN {outputPath} ELSE {})
           /\ renameFailed' = (renameFailed \/ (move /\ ~renameOk))
           /\ fs' = IF move THEN Rename(fs1, tempPath, outputPath, renameOk)
                    ELSE IF drop THEN Remove(fs1, tempPath)
                    ELSE fs1
           /\ IF fit
              THEN /\ retPath' = outputPath
                   /\ retErr' = ""
                   /\ promoted' = <<"res", i>>
                   /\ events' = emitProgress(ev1, ProgressInfo(1, 1, TRUE))
                   /\ pc' = "compressReturn"
                   /\ i' = i
              ELSE /\ i' = IF o.err THEN NextAfterError(i, NumStrategies)
                                    ELSE NextAfterOversize(i, NumStrategies)
                   /\ events' = ev1
                   /\ UNCHANGED <<retPath, retErr, promoted, pc>>
    /\ UNCHANGED <<sendVars, inputPath, isAudio, maxSizeBytes, outputPath, videoDuration,
                   targetBitrate, brTarget, brMaxSize, probe, before>>
    /\ UNCHANGED otherVars

\* after the loop: the call of compressVideoByBitrate as last resort
ResExhausted ==
    /\ pc = "resLoop"
    /\ i >= NumStrategies
    /\ brTarget' = ExhaustionBitrate(targetBitrate)
    /\ brMaxSize' = maxSizeBytes
    /\ i' = 0
    /\ pc' = "bitrateLoop"
    /\ UNCHANGED <<fs, sendVars, inputPath, isAudio, maxSizeBytes, outputPath,
                   videoDuration, targetBitrate, retPath, retErr, histVars>>
    /\ UNCHANGED otherVars

\* one iteration of the loop of compressVideoByBitrate
BitrateAttempt(o, renameOk) ==
    /\ pc = "bitrateLoop"
    /\ i < NumBitrates
    /\ LET tempPath == BitrateTempPath(inputPath, outputPath, i)
           bitrate == bitrates(brTarget)[i + 1]
           fs1 == runFFmpegCommand(fs, tempPath, o)
           fit == ~o.err /\ Fits(fs1, tempPath, brMaxSize)
           move == fit /\ tempPath # outputPath
           drop == o.err \/ (~fit /\ tempPath # outputPath)
       IN  /\ log' = Append(log, Invocation("bitrate", i, tempPath, bitrate, BitrateAudio(bitrate), "",
                                            videoFilters(scales[i + 1], fpsList[i + 1]))
                                 @@ RateCaps(bitrate))
           /\ last' = Run("bitrate", i, o)
           /\ fitAt' = IF ~o.err /\ o.wrote /\ o.size <= maxSizeBytes
                       THEN fitAt \cup {Len(log) + 1} ELSE fitAt
           /\ allOver' = (allOver /\ ~o.err /\ o.size > maxSizeBytes)
           /\ targets' = targets \cup {tempPath} \cup (IF move THEN {outputPath} ELSE {})
           /\ renameFailed' = (renameFailed \/ (move /\ ~renameOk))
           /\ fs' = IF move THEN Rename(fs1, tempPath, outputPath, renameOk)
                    ELSE IF drop THEN Remove(fs1, tempPath)
                    ELSE fs1
           /\ IF fit
              THEN /\ retPath' = outputPath
                   /\ retErr' = ""
                   /\ promoted' = <<"bitrate", i>>
                   /\ pc' = "compressReturn"
                   /\ i' = i
              ELSE /\ i' = IF o.err THEN NextAfterError(i, NumBitrates)
                                    ELSE NextAfterOversize(i, NumBitrates)
                   /\ UNCHANGED <<retPath, retErr, promoted, pc>>
    /\ UNCHANGED <<sendVars, inputPath, isAudio, maxSizeBytes, outputPath, videoDuration,
                   targetBitrate, brTarget, brMaxSize, probe, before, events>>
    /\ UNCHANGED otherVars

\* the statement after the loop of compressVideoByBitrate
BitrateExhausted ==
    /\ pc = "bitrateLoop"
    /\ i >= NumBitrates
    /\ retPath' = <<>>
    /\ retErr' = "could not compress video to target size"
    /\ pc' = "compressReturn"
    /\ UNCHANGED <<fs, sendVars, inputPath, isAudio, maxSizeBytes, outputPath,
                   videoDuration, targetBitrate, brTarget, brMaxSize, i, histVars>>
    /\ UNCHANGED otherVars

\* fallbackVideoCompression
fallbackVideoCompression(o) ==
    /\ pc = "fallback"
    /\ fs' = runFFmpegCommand(fs, outputPath, o)
    /\ log' = Append(log, Invocation("fallback", 0, outputPath, 0, "32k", "40",
                                    <<"scale=iw*0.5:ih*0.5", "fps=15">>))
    /\ last' = Run("fallback", 0, o)
    /\ targets' = targets \cup {outputPath}
    /\ IF o.err
       THEN /\ retPath' = <<>>
            /\ retErr' = "fallback compression error"
       ELSE /\ retPath' = outputPath
            /\ retErr' = ""
    /\ pc' = "compressReturn"
    /\ UNCHANGED <<sendVars, inputPath, isAudio, maxSizeBytes, outputPath, videoDuration,
                   targetBitrate, brTarget, brMaxSize, i, probe, fitAt, allOver,
                   promoted, renameFailed, before, events>>
    /\ UNCHANGED otherVars

----------------------------------------------------------------------------
(* SendToDiscord, from the return of compressFile *)

\* the error check after compressFile and the second deferred cleanup
SendAfterCompress ==
    /\ pc = "compressReturn"
    /\ IF retErr # ""
       THEN /\ sendRet' = "error compressing file"
            /\ pc' = "defers"
            /\ UNCHANGED <<finalPath, cleanup, ndefers>>
       ELSE /\ finalPath' = retPath
            /\ cleanup' = TRUE
            /\ ndefers' = ndefers + 1
            /\ pc' = "upload"
            /\ sendRet' = sendRet
    /\ UNCHANGED <<fs, maxFileSize, webhookSet, filePath, audioOnly, uploads, stats,
                   callVars, histVars>>
    /\ UNCHANGED otherVars

\* only the total is counted, the session counter is left out
IncrementClipCountTotalOnly(st, fileSize) ==
    [TotalClips |-> st.TotalClips + 1,
     SessionClips |-> st.SessionClips,
     TotalSize |-> st.TotalSize + fileSize]

\* ConfigManager.IncrementClipCount
IncrementClipCount(st, fileSize) ==
    [TotalClips |-> st.TotalClips + 1,
     SessionClips |-> st.SessionClips + 1,
     TotalSize |-> st.TotalSize + fileSize]

\* sendFileToDiscord, the Medal TV title update and the statistics
SendUpload(netOk) ==
    /\ pc = "upload"
    /\ IF ~Exists(fs, finalPath)
       THEN /\ sendRet' = "error opening file"
            /\ UNCHANGED <<fs, uploads, stats, targets>>
       ELSE IF ~netOk
       THEN /\ sendRet' = "error sending request"
            /\ UNCHANGED <<fs, uploads, stats, targets>>
       ELSE /\ uploads' = Append(uploads, [path |-> finalPath, size |-> fs[finalPath]])
            /\ IF isMedalTVClip(filePath) /\ Exists(fs, ClipsJSONPath)
               THEN /\ fs' = WriteFile(fs, ClipsJSONPath, fs[ClipsJSONPath])
                    /\ targets' = targets \cup {ClipsJSONPath}
               ELSE UNCHANGED <<fs, targets>>
            /\ stats' = IncrementClipCount(stats, fs[finalPath])
            /\ sendRet' = "nil"
    /\ pc' = "defers"
    /\ UNCHANGED <<maxFileSize, webhookSet, filePath, audioOnly, finalPath, cleanup,
                   ndefers, callVars, probe, log, last, fitAt, allOver, promoted,
                   renameFailed, before, events>>
    /\ UNCHANGED otherVars

\* the deferred closures run at return; each reads finalPath and cleanup as
\* they are then
RunDeferred ==
    /\ pc = "defers"
    /\ IF ndefers > 0 /\ cleanup
       THEN /\ fs' = Remove(fs, finalPath)
            /\ targets' = targets \cup {finalPath}
       ELSE UNCHANGED <<fs, targets>>
    /\ pc' = "returned"
    /\ UNCHANGED <<sendVars, callVars, probe, log, last, fitAt, allOver, promoted,
                   renameFailed, before, events>>
    /\ UNCHANGED otherVars

----------------------------------------------------------------------------

Next ==
    \/ SendToDiscord
    \/ \E o \in EncOutcomes(maxFileSize * BytesPerMB) : SendExtractAudio(o)
    \/ SendCheckSize
    \/ compressFile
    \/ \E o \in EncOutcomes(maxSizeBytes), renameOk \in BOOLEAN : AudioAttempt(o, renameOk)
    \/ AudioExhausted
    \/ \E r \in ProbeResults : ProbeDuration(r)
    \/ BitrateGateCheck
    \/ \E o \in EncOutcomes(maxSizeBytes), renameOk \in BOOLEAN : ResAttempt(o, renameOk)
    \/ ResExhausted
    \/ \E o \in EncOutcomes(maxSizeBytes), renameOk \in BOOLEAN : BitrateAttempt(o, renameOk)
    \/ BitrateExhausted
    \/ \E o \in EncOutcomes(maxSizeBytes) : fallbackVideoCompression(o)
    \/ SendAfterCompress
    \/ \E netOk \in BOOLEAN : SendUpload(netOk)
    \/ RunDeferred

Spec == Init /\ [][Next]_vars

\* SendToDiscord and compressFile are straight-line code on one goroutine and
\* every ffmpeg / ffprobe run is waited for with CombinedOutput: if each
\* external run returns, the step that is enabled is taken
FairSpec == Spec /\ WF_vars(Next)

----------------------------------------------------------------------------
(* Properties *)

\* the ceiling: MaxFileSize x 1024 x 1024 bytes
Ceiling == maxFileSize * 1024 * 1024

\* compressFile has returned and its caller has not yet acted on the result
Returned == pc = "compressReturn"

\* the positions of log that invoke a strategy of the given ladder
Positions(kind) == {n \in DOMAIN log : log[n].kind = kind}

\* the files on disk that were not there when compressFile was called
NewFiles == DOMAIN fs \ before

LadderErrors == {"could not compress audio to target size",
                 "could not compress video to target size"}

\* C1: whenever compressFile returns a path with no error, the file at that
\* path exists and its size is at most the ceiling.
C1_CeilingInvariant ==
    (Returned /\ retErr = "") => (Exists(fs, retPath) /\ fs[retPath] <= Ceiling)

\* C2: in each ladder the promoted strategy is the lowest-index strategy whose
\* encoder run succeeded within the ceiling: it is the only run that fit, it
\* is the latest invocation (no strategy is invoked after it), the strategies
\* of its ladder were invoked in the order 0, 1, .., k before it, and a run
\* that fits is promoted at once.
C2_FirstFit ==
    /\ (fitAt # {}) => (promoted # <<>>)
    /\ (promoted # <<>>) =>
          LET kind == promoted[1]
              k == promoted[2]
              ps == Positions(kind)
          IN  /\ fitAt = {Len(log)}
              /\ log[Len(log)].kind = kind /\ log[Len(log)].idx = k
              /\ last.kind = kind /\ last.idx = k
              /\ ~last.err /\ last.size <= Ceiling
              /\ Cardinality(ps) = k + 1
              /\ \A n \in ps : log[n].idx = k - (Len(log) - n)
              /\ retErr = "" /\ retPath = outputPath

\* C2 witness: the third strategy of the resolution ladder is promoted with a
\* result of exactly the ceiling
C2_Witness ==
    Returned /\ promoted = <<"res", 2>> /\ last.size = Ceiling

\* C3: with the duration obtained, a derived bitrate below 300000 leads to
\* bitrate-ladder encodes only, never a resolution-ladder encode; a derived
\* bitrate of 300000 or more starts the resolution ladder, and a
\* bitrate-ladder encode happens only after all 12 resolution strategies.
C3_BitrateGate ==
    LET gated == pc \notin {"SendToDiscord", "extractAudio", "checkSize", "compressFile",
                            "probe", "gate", "fallback", "audioLoop"}
                 /\ ~isAudio /\ Positions("fallback") = {}
                 /\ (Positions("res") \cup Positions("bitrate") # {} \/ pc \in {"resLoop", "bitrateLoop"})
    IN  gated =>
          /\ (targetBitrate < 300000) =>
                /\ Positions("res") = {}
                /\ pc # "resLoop"
          /\ (targetBitrate >= 300000) =>
                /\ pc = "bitrateLoop" => Cardinality(Positions("res")) = 12
                /\ \A n \in Positions("bitrate") :
                      \A k \in 0..11 : \E m \in 1..(n - 1) :
                          log[m].kind = "res" /\ log[m].idx = k
                /\ (Positions("res") = {}) => (pc = "resLoop" /\ i = 0)

\* C3 witness: a derived bitrate of exactly 300000 with the resolution ladder
\* running
C3_Witness ==
    pc = "resLoop" /\ targetBitrate = 300000 /\ i = 2

\* C4: after compressFile returns the error of an exhausted ladder, no file
\* created by the call remains on disk.
C4_NoLeakOnFailure ==
    (Returned /\ retErr \in LadderErrors) => (NewFiles = {})

\* C5: after compressFile returns a path, the canonical output at that path is
\* the only file created by the call that exists (stated for the runs in which
\* no os.Rename failed).
C5_SingleOutput ==
    (Returned /\ retErr = "" /\ ~renameFailed) => (NewFiles = {retPath})

\* C6: if every encoder run of the applicable ladder(s) succeeds with a result
\* above the ceiling, every strategy is run (7 for audio; 6 bitrate tiers for
\* video, after all 12 resolution strategies when the gate selects them) and
\* compressFile returns an error and an empty path.
C6_Exhaustion ==
    (Returned /\ allOver /\ last.kind \in {"audio", "res", "bitrate"}) =>
        /\ retErr \in LadderErrors
        /\ retPath = <<>>
        /\ promoted = <<>>
        /\ IF isAudio
           THEN Cardinality(Positions("audio")) = 7
           ELSE /\ Cardinality(Positions("bitrate")) = 6
                /\ Cardinality(Positions("res")) = IF targetBitrate < 300000 THEN 0 ELSE 12

\* C6 witness: all 12 + 6 video strategies have produced oversized results
C6_Witness ==
    Returned /\ allOver /\ Cardinality(Positions("res")) = 12
             /\ Cardinality(Positions("bitrate")) = 6

\* a step leaves the file to send on disk, with its size
SourceKept ==
    Exists(fs, filePath) => (Exists(fs', filePath) /\ fs'[filePath] = fs[filePath])

\* C7: the source file is never an encoder output, a rename source or target
\* or a removed path, in SendToDiscord (filePath) and in compressFile
\* (inputPath), and it stays on disk with its size.
C7_SourceUntouched ==
    /\ [](/\ filePath \notin targets
          /\ (pc \notin {"SendToDiscord", "extractAudio", "checkSize", "compressFile"}
              /\ inputPath # <<>>) =>
                /\ outputPath # inputPath
                /\ \A n \in DOMAIN log :
                      log[n].kind # "extract" => log[n].path # inputPath)
    /\ [][SourceKept]_vars

\* C7 witness: an .mp4 source was compressed on the third resolution strategy,
\* uploaded, and the deferred cleanup has run
C7_Witness ==
    /\ pc = "returned" /\ sendRet = "nil" /\ promoted = <<"res", 2>>
    /\ filePath = <<"a", ".", "m", "p", "4">>
    /\ Exists(fs, filePath) /\ ~Exists(fs, outputPath)

\* the prober failed: tool error, empty output or non-numeric output
ProbeFailed ==
    /\ probe # NoProbe
    /\ \/ probe.fail
       \/ probe.text \in {<<>>, <<" ", "\n">>, <<"N", "/", "A", "\n">>}

\* C8: if getVideoDuration fails, exactly one encoder run is made, the fixed
\* CRF 40, half-resolution, 15 fps, 32k-audio encode; no ladder strategy is
\* run; and the call then returns the output path or an error.
C8_ProbeFallback ==
    ProbeFailed =>
        /\ Positions("res") = {} /\ Positions("bitrate") = {}
        /\ pc \notin {"probe", "gate", "resLoop", "bitrateLoop", "audioLoop"}
        /\ IF pc = "fallback"
           THEN Positions("fallback") = {}
           ELSE /\ Cardinality(Positions("fallback")) = 1
                /\ log[Len(log)] = [kind |-> "fallback", idx |-> 0, path |-> outputPath,
                                    vb |-> 0, ab |-> "32k", crf |-> "40",
                                    vf |-> <<"scale=iw*0.5:ih*0.5", "fps=15">>]
                /\ \/ retErr = "" /\ retPath = outputPath
                   \/ retErr = "fallback compression error" /\ retPath = <<>>

\* C8 witness: ffprobe printed N/A and the fallback encode has returned
C8_Witness ==
    /\ Returned /\ probe.text = <<"N", "/", "A", "\n">>
    /\ Cardinality(Positions("fallback")) = 1

LoopSize(p) == IF p = "audioLoop" THEN 7 ELSE IF p = "resLoop" THEN 12 ELSE 6

LoopOf(kind) == IF kind = "audio" THEN "audioLoop"
                ELSE IF kind = "res" THEN "resLoop" ELSE "bitrateLoop"

\* a step taken inside a ladder: an attempt of strategy i whose failure, error
\* or oversize alike, moves on to i + 1, or the ladder's exhaustion handling
LadderStep ==
    pc \in {"audioLoop", "resLoop", "bitrateLoop"} =>
        /\ (log' # log) =>
              /\ i < LoopSize(pc)
              /\ log'[Len(log')].idx = i
              /\ (last'.err \/ last'.size > Ceiling) =>
                    (pc' = pc /\ i' = i + 1 /\ retErr' = "" /\ retPath' = <<>>)
        /\ (log' = log) =>
              /\ i = LoopSize(pc)
              /\ pc' = IF pc = "resLoop" THEN "bitrateLoop" ELSE "compressReturn"
              /\ (pc # "resLoop") => (retErr' \in LadderErrors /\ retPath' = <<>>)

\* C9: inside a ladder an encoder error at strategy i has the same next step as
\* an oversized result: strategy i + 1 is attempted next, or after the last
\* strategy the exhaustion handling runs; a ladder returns its error only
\* after every one of its strategies has been attempted.
C9_ErrorsNotFatal ==
    /\ [][LadderStep]_vars
    /\ [](retErr \in LadderErrors =>
            /\ last.kind \in {"audio", "bitrate"}
            /\ {log[n].idx : n \in Positions(last.kind)} = 0..(LoopSize(LoopOf(last.kind)) - 1))

\* C9 witness: the resolution ladder is at strategy 4 after an encoder error
\* at strategy 3
C9_Witness ==
    pc = "resLoop" /\ i = 4 /\ last.kind = "res" /\ last.idx = 3 /\ last.err

\* C10: when all 12 resolution strategies have failed, the bitrate ladder is
\* run once, after the last resolution strategy, starting at half the derived
\* target bitrate (integer division) with the same ceiling, and its result is
\* the result of the call.
C10_ExhaustionFallback ==
    LET res == Positions("res")
        br == Positions("bitrate")
        exhausted == \E n \in res : log[n].idx = 11 /\ promoted # <<"res", 11>>
                                    /\ (n < Len(log) \/ pc # "resLoop" \/ i = 12)
    IN  /\ (exhausted /\ pc \notin {"resLoop"}) =>
              /\ targetBitrate >= 300000
              /\ brTarget = targetBitrate \div 2
              /\ brMaxSize = Ceiling
              /\ Cardinality(res) = 12
              /\ \A n \in br : \A m \in res : m < n
              /\ \A n \in br : log[n].idx = 0 =>
                    /\ log[n].vb = targetBitrate \div 2
                    /\ n = Len(log) - Cardinality(br) + 1
              /\ {log[n].idx : n \in br} = 0..(Cardinality(br) - 1)
              /\ (pc = "bitrateLoop") => (i = Cardinality(br))
              /\ (pc # "bitrateLoop") =>
                    /\ br # {}
                    /\ \/ promoted = <<"bitrate", Cardinality(br) - 1>>
                          /\ retErr = "" /\ retPath = outputPath
                       \/ promoted = <<>> /\ Cardinality(br) = 6
                          /\ retErr = "could not compress video to target size"
                          /\ retPath = <<>>
        /\ (br # {} /\ targetBitrate >= 300000) => exhausted

\* C10 witness: after 12 failed resolution strategies the second bitrate tier
\* is promoted
C10_Witness ==
    /\ Returned /\ promoted = <<"bitrate", 1>>
    /\ Cardinality(Positions("res")) = 12
    /\ targetBitrate = 1118481 /\ brTarget = 559240

\* C11: the video bitrates of the bitrate-ladder tiers, in the order they are
\* invoked, never increase, and none is below 100000, whatever the starting
\* target bitrate.
C11_TiersDescending ==
    \A n \in Positions("bitrate") :
        /\ log[n].vb >= MinBitrate
        /\ \A m \in Positions("bitrate") : m < n => log[m].vb >= log[n].vb

\* C12 as stated: in the bitrate ladder the encoder is invoked with audio
\* bitrate 64k at tier 0 and with 32k at every other tier, whatever the
\* starting target bitrate.
C12_AudioByTier ==
    \A n \in Positions("bitrate") :
        log[n].ab = IF log[n].idx = 0 THEN "64k" ELSE "32k"

\* C12: in the bitrate ladder the encoder is invoked with audio bitrate 64k at
\* exactly the tiers whose video bitrate is above 500000, and with 32k at
\* every other tier.
C12_AudioByBitrate ==
    \A n \in Positions("bitrate") :
        /\ log[n].ab \in {"64k", "32k"}
        /\ (log[n].ab = "64k") <=> (log[n].vb > 500000)

\* the ladder entered after exhaustion with a start of 4473924: tier 4 runs at
\* 745654 with 64k and tier 5 at 100000 with 32k
C12_Witness ==
    \E m, n \in Positions("bitrate") :
        /\ log[m].idx = 4 /\ log[m].vb = 745654 /\ log[m].ab = "64k"
        /\ log[n].idx = 5 /\ log[n].vb = 100000 /\ log[n].ab = "32k"

\* the paths a call on the given source hands to an encoder, to os.Rename or
\* to os.Remove: the extracted audio and the outputs and temporaries of its
\* audio ladder when only the audio is sent, the outputs and temporaries of
\* the resolution and bitrate ladders otherwise
WritePaths(source, audio) ==
    IF audio
    THEN LET x == ExtractAudioPath(source)
         IN  {x, AudioOutputPath(x)} \cup {AudioTempPath(x, k) : k \in 0..(NumAudioSettings - 1)}
    ELSE LET out == VideoOutputPath(source)
         IN  {out} \cup {VideoTempPath(source, k) : k \in 0..(NumStrategies - 1)}
                   \cup {BitrateTempPath(source, out, k) : k \in 0..(NumBitrates - 1)}

\* the paths of the compression pipeline the running call has written,
\* renamed onto or deleted lie among the paths derived from its own source
OwnPaths == (targets \ {ClipsJSONPath}) \subseteq WritePaths(filePath, audioOnly)

\* C13: the paths a call writes, renames onto or deletes are disjoint from the
\* paths of a call (compression, or audio extraction plus compression) on any
\* different source path.
C13_DisjointAcrossSources ==
    \A other \in Sources \ {filePath}, audio \in BOOLEAN :
        (targets \ {ClipsJSONPath}) \cap WritePaths(other, audio) = {}

\* C14: when compressFile returns the error of an exhausted ladder (audio or
\* bitrate), the last progress event emitted carries a non-empty error text.
C14_ErrorEventOnExhaustion ==
    (Returned /\ retErr \in LadderErrors) =>
        (events # <<>> /\ events[Len(events)].error # "")

\* C15: every encoder invocation of the audio, resolution and bitrate ladders
\* has its progress event (there are at least as many attempt events as
\* ladder invocations), and when compressFile returns a path the last event
\* emitted is the completion event.
C15_ProgressCoverage ==
    /\ Cardinality({n \in DOMAIN events : ~events[n].isComplete}) >=
          Cardinality(Positions("audio") \cup Positions("res") \cup Positions("bitrate"))
    /\ (Returned /\ retErr = "") =>
          (events # <<>> /\ events[Len(events)].isComplete)

\* the order of the phases of one call: start, duration probe, gate check,
\* strategy iteration (fallback encode, audio or resolution ladder, then the
\* bitrate ladder), return
PhaseRank(p) ==
    CASE p \in {"SendToDiscord", "extractAudio", "checkSize", "compressFile"} -> 0
      [] p = "probe" -> 1
      [] p = "gate" -> 2
      [] p \in {"fallback", "audioLoop", "resLoop"} -> 3
      [] p = "bitrateLoop" -> 4
      [] p = "compressReturn" -> 5
      [] OTHER -> 6

\* a step never goes back to an earlier phase; a step that stays inside a
\* ladder is one attempt and moves the index on by exactly one; the probe
\* phase is left by the step that probes
ForwardStep ==
    /\ PhaseRank(pc') >= PhaseRank(pc)
    /\ (pc \in {"audioLoop", "resLoop", "bitrateLoop"} /\ pc' = pc) =>
          /\ i' = i + 1
          /\ Len(log') = Len(log) + 1
          /\ log'[Len(log')].idx = i
    /\ (pc' \in {"audioLoop", "resLoop", "bitrateLoop"} /\ pc' # pc) => i' = 0
    /\ (probe' # probe) => (pc = "probe" /\ probe = NoProbe /\ pc' \in {"gate", "fallback"})
    /\ (pc' = "probe") => (pc = "compressFile" /\ probe = NoProbe)

\* no strategy of a ladder is invoked twice, the invocations of a ladder come
\* in the order 0, 1, 2, .., and no resolution-ladder invocation follows a
\* bitrate-ladder invocation
InvokedInOrder ==
    /\ \A m, n \in DOMAIN log :
          (m < n /\ log[m].kind = log[n].kind) => log[m].idx < log[n].idx
    /\ \A n \in DOMAIN log :
          log[n].kind \in {"audio", "res", "bitrate"} =>
              log[n].idx = Cardinality({m \in 1..(n - 1) : log[m].kind = log[n].kind})
    /\ \A m, n \in DOMAIN log :
          (log[m].kind = "bitrate" /\ log[n].kind = "res") => n < m
    /\ (pc = "resLoop") => Positions("bitrate") = {}

\* C16: within one call the phases occur only in the order start, duration
\* probe (video only), gate check, strategy iteration, return; the strategy
\* index of a ladder rises by exactly one per attempt, no strategy is invoked
\* twice, the prober runs at most once, and the resolution ladder is never
\* entered after a bitrate-ladder encode.
C16_NoBackwardTransitions ==
    /\ [][ForwardStep]_vars
    /\ []InvokedInOrder

\* the resolution ladder ran through all twelve strategies and the bitrate
\* ladder is at its third tier
C16_Witness ==
    /\ pc = "bitrateLoop" /\ i = 2
    /\ Cardinality(Positions("res")) = 12
    /\ Cardinality(Positions("bitrate")) = 2
    /\ probe # NoProbe

\* the encoder invocations made by compressFile (the audio extraction belongs
\* to its caller)
Encodes == {n \in DOMAIN log : log[n].kind # "extract"}

\* at most 7 encoder invocations for audio, at most 12 + 6 for video, and
\* exactly one when the call has returned after a failed probe
EncodeBound ==
    /\ isAudio => (Cardinality(Encodes) <= 7 /\ Encodes = Positions("audio"))
    /\ ~isAudio =>
          /\ Cardinality(Positions("res")) <= 12
          /\ Cardinality(Positions("bitrate")) <= 6
          /\ Cardinality(Encodes) <= 18
    /\ (ProbeFailed /\ PhaseRank(pc) >= 5) => Cardinality(Encodes) = 1

\* C17: if every external run returns, a call of compressFile returns, with a
\* path or with an error, after at most 7 encoder invocations for audio, at
\* most 18 for video, and exactly one on the probe-failure path.
C17_Termination ==
    /\ []EncodeBound
    /\ (pc = "compressFile") ~>
          (pc = "compressReturn" /\ ((retErr = "") <=> (retPath # <<>>)))

\* a video call that returned after all eighteen invocations
C17_Witness ==
    /\ Returned /\ ~isAudio
    /\ Cardinality(Encodes) = 18
    /\ retErr # ""

\* the value of the float64 expression float64(ceiling) * 0.8 * 8 / duration
\* cut to an integer, for the ceilings (MB) and the durations of ProbeTexts
DerivedBitrate(mb, text) ==
    CASE text = <<"1", "2", "0", "\n">>                     -> IF mb = 10 THEN 559240 ELSE 55924
      [] text = <<"6", "0", "\n">>                          -> IF mb = 10 THEN 1118481 ELSE 111848
      [] text = <<"7", ".", "5", "\n">>                     -> IF mb = 10 THEN 8947848 ELSE 894784
      [] text = <<"2", "2", "3", ".", "6", "9", "6", "\n">> -> IF mb = 10 THEN 300000 ELSE 30000
      [] text = <<"2", "2", "3", ".", "6", "9", "7", "\n">> -> IF mb = 10 THEN 299998 ELSE 29999

\* targetBitrate is assigned by the gate step only, once
AssignedOnce ==
    (targetBitrate' # targetBitrate) => (pc = "gate" /\ targetBitrate = 0)

\* after the gate targetBitrate is the derived bitrate of the ceiling and the
\* probed duration; the gate has compared this value with 300000, and the
\* bitrate ladder starts from it (gate) or from its half (exhaustion)
DerivedBitrateUsed ==
    (PhaseRank(pc) >= 3 /\ probe # NoProbe /\ ~ProbeFailed) =>
        /\ targetBitrate = DerivedBitrate(maxFileSize, probe.text)
        /\ (Positions("res") # {} \/ pc = "resLoop") => targetBitrate >= 300000
        /\ (Positions("res") = {} /\ pc # "resLoop") => targetBitrate < 300000
        /\ (pc = "bitrateLoop" \/ Positions("bitrate") # {}) =>
              brTarget = IF Positions("res") = {}
                         THEN targetBitrate
                         ELSE (targetBitrate - (targetBitrate % 2)) \div 2

\* C19: the derived target bitrate is computed once per video call, as
\* ceiling x 0.8 x 8 / duration cut to an integer (10485760 bytes and 120 s
\* give 559240); this value is the one compared with 300000 at the gate and
\* the one halved for the ladder entered after exhaustion.
C19_DerivedBitrate ==
    /\ [][AssignedOnce]_vars
    /\ []DerivedBitrateUsed

\* 10 MB and 120 s: 559240, and after the twelve resolution strategies the
\* bitrate ladder starts from 279620
C19_Witness ==
    /\ maxFileSize = 10 /\ probe.text = <<"1", "2", "0", "\n">>
    /\ targetBitrate = 559240
    /\ pc = "bitrateLoop" /\ brTarget = 279620
    /\ Cardinality(Positions("res")) = 12

\* C20: every encoder invocation of the bitrate ladder has -maxrate equal to
\* twice and -bufsize equal to four times the -b:v bitrate of the same
\* invocation, which is the bitrate of its tier.
C20_RateCaps ==
    \A n \in Positions("bitrate") :
        /\ log[n].vb = bitrates(brTarget)[log[n].idx + 1]
        /\ log[n].maxrate = log[n].vb + log[n].vb
        /\ log[n].bufsize = log[n].maxrate + log[n].maxrate

\* tier 0 of the ladder entered after exhaustion with 10 MB and 7.5 s, and the
\* last tier at 100000
C20_Witness ==
    \E m, n \in Positions("bitrate") :
        /\ log[m].idx = 0 /\ log[m].vb = 4473924
        /\ log[m].maxrate = 8947848 /\ log[m].bufsize = 17895696
        /\ log[n].idx = 5 /\ log[n].vb = 100000
        /\ log[n].maxrate = 200000 /\ log[n].bufsize = 400000

\* C21: once compressFile has dispatched, its ceiling is MaxFileSize x 1024 x
\* 1024 bytes and isAudio is the audioOnly of SendToDiscord; with isAudio only
\* the audio compressor runs (no prober, no resolution, bitrate or fallback
\* encode), without it only the video compressor runs (no audio-ladder encode).
C21_Dispatch ==
    (PhaseRank(pc) >= 1 /\ inputPath # <<>>) =>
        /\ maxSizeBytes = maxFileSize * 1024 * 1024
        /\ isAudio = audioOnly
        /\ inputPath = (IF audioOnly THEN ExtractAudioPath(filePath) ELSE filePath)
        /\ isAudio =>
              /\ pc \notin {"probe", "gate", "fallback", "resLoop", "bitrateLoop"}
              /\ probe = NoProbe
              /\ Encodes = Positions("audio")
              /\ outputPath = AudioOutputPath(inputPath)
        /\ ~isAudio =>
              /\ pc # "audioLoop"
              /\ Positions("audio") = {} /\ Positions("extract") = {}
              /\ outputPath = VideoOutputPath(inputPath)

\* an audio-only send whose extracted audio was above the limit and went
\* through the audio ladder
C21_Witness ==
    /\ audioOnly /\ Returned
    /\ Positions("extract") # {}
    /\ Cardinality(Positions("audio")) >= 2

\* the step of the size test: compressFile is called exactly when the file to
\* send is larger than the limit, the upload follows directly exactly when it
\* is not; compressFile is entered from the size test only
SizeTestStep ==
    /\ (pc = "checkSize" /\ Exists(fs, finalPath)) =>
          /\ finalPath = (IF audioOnly THEN ExtractAudioPath(filePath) ELSE filePath)
          /\ (pc' = "compressFile") <=> (fs[finalPath] > Ceiling)
          /\ (pc' = "upload") <=> (fs[finalPath] <= Ceiling)
          /\ (pc' = "compressFile") => (inputPath' = finalPath)
    /\ (pc' = "compressFile" /\ pc # "compressFile") => pc = "checkSize"
    /\ (pc' = "upload" /\ pc # "upload") =>
          (pc = "checkSize" \/ (pc = "compressReturn" /\ retErr = ""))

\* what was uploaded: without a call of compressFile the file to send itself,
\* of a size within the limit; after a call of compressFile the path it
\* returned, never its input; after a failed compression nothing
UploadedFiles ==
    /\ \A n \in DOMAIN uploads :
          IF inputPath = <<>>
          THEN /\ uploads[n].path = (IF audioOnly THEN ExtractAudioPath(filePath) ELSE filePath)
               /\ uploads[n].size <= Ceiling
          ELSE /\ retErr = "" /\ uploads[n].path = retPath
               /\ uploads[n].path # inputPath
    /\ (PhaseRank(pc) >= 6 /\ retErr # "") =>
          (uploads = <<>> /\ sendRet = "error compressing file")

\* C22: SendToDiscord calls compressFile if and only if the file to send (the
\* source, or the extracted audio when audioOnly) is strictly larger than
\* MaxFileSize x 1024 x 1024; a file within the limit is uploaded as it is, a
\* file above it is never uploaded uncompressed, and a failed compression ends
\* the send with an error and no upload.
C22_CompressOnOversize ==
    /\ [][SizeTestStep]_vars
    /\ []UploadedFiles

\* a source of exactly the limit was uploaded as it is
C22_Witness ==
    /\ ~audioOnly /\ inputPath = <<>>
    /\ Len(uploads) = 1 /\ uploads[1].path = filePath /\ uploads[1].size = Ceiling

\* the positions of events that announce an attempt / a completion
AttemptEvents == {m \in DOMAIN events : ~events[m].isComplete}
CompletionEvents == {m \in DOMAIN events : events[m].isComplete}

\* C23: in the resolution ladder strategy i of 12 has exactly one event with
\* stage "compression", progress i/12 and isComplete false, emitted before its
\* encoder is invoked; the progress values of a call are strictly increasing
\* and within [0,1]; there is at most one completion event (progress 1,
\* isComplete true), only after a fit, and it is the last event.
C23_ResProgressEvents ==
    /\ \A n \in Positions("res") :
          /\ log[n].emitted = log[n].idx + 1
          /\ events[log[n].idx + 1] =
                [stage |-> "compression", num |-> log[n].idx, den |-> 12,
                 isComplete |-> FALSE, error |-> ""]
    /\ Cardinality(AttemptEvents) = Cardinality(Positions("res"))
    /\ \A m \in DOMAIN events :
          /\ events[m].stage = "compression"
          /\ events[m].den > 0 /\ 0 <= events[m].num /\ events[m].num <= events[m].den
    /\ \A m, n \in DOMAIN events :
          m < n => events[m].num * events[n].den < events[n].num * events[m].den
    /\ Cardinality(CompletionEvents) <= 1
    /\ \A m \in CompletionEvents :
          /\ m = Len(events)
          /\ events[m].num = events[m].den
          /\ promoted # <<>> /\ promoted[1] = "res"
          /\ fitAt = {Len(log)} /\ log[Len(log)].kind = "res"

\* the fourth strategy fit: four attempt events, then the completion event
C23_Witness ==
    /\ promoted = <<"res", 3>>
    /\ Len(events) = 5
    /\ events[4].num = 3 /\ events[4].den = 12 /\ ~events[4].isComplete
    /\ events[5].isComplete

\* C24: when SendToDiscord has returned after an upload (successful or not)
\* or after a failed compression, the intermediate files it created are gone:
\* the extracted audio (<base>_audio.mp3) and the compressed output.
C24_IntermediatesRemoved ==
    (pc = "returned" /\ sendRet \in {"nil", "error opening file", "error sending request",
                                      "error compressing file"}) =>
        /\ audioOnly => ~Exists(fs, ExtractAudioPath(filePath))
        /\ (outputPath # <<>>) => ~Exists(fs, outputPath)

\* statistics change only in the step that uploads successfully, and then by
\* one clip, one session clip and the size of the uploaded file
StatsStep ==
    (stats' # stats) =>
        /\ pc = "upload" /\ sendRet' = "nil"
        /\ Len(uploads') = Len(uploads) + 1
        /\ stats'.TotalClips = stats.TotalClips + 1
        /\ stats'.SessionClips = stats.SessionClips + 1
        /\ stats'.TotalSize = stats.TotalSize + uploads'[Len(uploads')].size

\* a returned call counted exactly when it returned nil
StatsOfCall ==
    /\ stats.TotalClips = Len(uploads) /\ stats.SessionClips = Len(uploads)
    /\ (pc = "returned" /\ sendRet = "nil") =>
          /\ stats.TotalClips = 1 /\ Len(uploads) = 1
          /\ stats.TotalSize = uploads[1].size
    /\ (pc = "returned" /\ sendRet # "nil") =>
          stats = [TotalClips |-> 0, SessionClips |-> 0, TotalSize |-> 0]

\* C29: a SendToDiscord call whose upload succeeded raises TotalClips and
\* SessionClips by exactly one and TotalSize by the size of the uploaded file;
\* a call that returns an error leaves all three unchanged.
C29_StatsOnSuccess ==
    /\ [][StatsStep]_vars
    /\ []StatsOfCall

\* a compressed file was uploaded and counted with its size
C29_Witness ==
    /\ pc = "returned" /\ sendRet = "nil" /\ retPath # <<>>
    /\ stats.TotalClips = 1 /\ stats.SessionClips = 1
    /\ stats.TotalSize = uploads[1].size /\ uploads[1].size = 1

----------------------------------------------------------------------------
(* The components at rest *)

mainVars == <<fs, pc, sendVars, callVars, histVars>>

\* no SendToDiscord call is running
MainIdle ==
    /\ fs = (ClipsJSONPath :> 1) /\ pc = "returned"
    /\ maxFileSize = 1 /\ webhookSet = FALSE /\ filePath = <<>> /\ audioOnly = FALSE
    /\ finalPath = <<>> /\ cleanup = FALSE /\ ndefers = 0 /\ sendRet = "none"
    /\ uploads = <<>>
    /\ stats = [TotalClips |-> 0, SessionClips |-> 0, TotalSize |-> 0]
    /\ inputPath = <<>> /\ isAudio = FALSE /\ maxSizeBytes = 0 /\ outputPath = <<>>
    /\ videoDuration = 0 /\ targetBitrate = 0 /\ brTarget = 0 /\ brMaxSize = 0 /\ i = 0
    /\ retPath = <<>> /\ retErr = ""
    /\ probe = NoProbe /\ log = <<>> /\ last = NoRun /\ fitAt = {} /\ allOver = TRUE
    /\ promoted = <<>> /\ renameFailed = FALSE /\ targets = {} /\ before = {} /\ events = <<>>

----------------------------------------------------------------------------
(* The update check: isNewerVersion *)

\* strings.TrimPrefix
HasPrefix(s, prefix) == Len(prefix) <= Len(s) /\ SubSeq(s, 1, Len(prefix)) = prefix
TrimPrefix(s, prefix) ==
    IF HasPrefix(s, prefix) THEN SubSeq(s, Len(prefix) + 1, Len(s)) ELSE s

\* strings.Split(s, "."): the parts between the dots, one empty part for ""
RECURSIVE SplitFrom(_, _)
SplitFrom(s, part) ==
    IF s = <<>> THEN <<part>>
    ELSE IF Head(s) = "." THEN <<part>> \o SplitFrom(Tail(s), <<>>)
    ELSE SplitFrom(Tail(s), Append(part, Head(s)))
Split(s) == SplitFrom(s, <<>>)

\* the loops that pad the shorter version with "0"
RECURSIVE PadParts(_, _)
PadParts(parts, maxLen) ==
    IF Len(parts) < maxLen THEN PadParts(Append(parts, <<"0">>), maxLen) ELSE parts

\* Go's int (64 bits, two's complement, wrapping) as four 16-bit limbs, the
\* lowest first
Limb == 65536
IntZero == <<0, 0, 0, 0>>
IsNegative(n) == n[4] >= Limb \div 2

\* num*10 + digit, wrapping at 64 bits
MulAdd(num, digit) ==
    LET c1 == num[1] * 10 + digit
        c2 == num[2] * 10 + c1 \div Limb
        c3 == num[3] * 10 + c2 \div Limb
        c4 == num[4] * 10 + c3 \div Limb
    IN  <<c1 % Limb, c2 % Limb, c3 % Limb, c4 % Limb>>

\* a < b on int
IntLess(a, b) ==
    IF IsNegative(a) # IsNegative(b) THEN IsNegative(a)
    ELSE \E k \in 1..4 : a[k] < b[k] /\ \A j \in (k + 1)..4 : a[j] = b[j]

\* parseVersionPart: numStr, the leading digits of the part
RECURSIVE LeadingDigits(_)
LeadingDigits(part) ==
    IF part # <<>> /\ IsDigit(Head(part))
    THEN <<Head(part)>> \o LeadingDigits(Tail(part))
    ELSE <<>>

\* parseVersionPart: the manual conversion of numStr
RECURSIVE ConvertFrom(_, _)
ConvertFrom(numStr, num) ==
    IF numStr = <<>> THEN num
    ELSE ConvertFrom(Tail(numStr), MulAdd(num, DigitVal(Head(numStr))))

parseVersionPart(part) == ConvertFrom(LeadingDigits(part), IntZero)

\* isNewerVersion: the comparison loop from part k on
RECURSIVE CompareParts(_, _, _)
CompareParts(latestParts, currentParts, k) ==
    IF k > Len(latestParts) THEN FALSE
    ELSE LET latestNum == parseVersionPart(latestParts[k])
             currentNum == parseVersionPart(currentParts[k])
         IN  IF IntLess(currentNum, latestNum) THEN TRUE
             ELSE IF IntLess(latestNum, currentNum) THEN FALSE
             ELSE CompareParts(latestParts, currentParts, k + 1)

isNewerVersion(latestIn, currentIn) ==
    LET l == TrimPrefix(latestIn, <<"v">>)
        c == TrimPrefix(currentIn, <<"v">>)
        lp == Split(l)
        cp == Split(c)
        maxLen == IF Len(cp) > Len(lp) THEN Len(cp) ELSE Len(lp)
    IN  IF l = c THEN FALSE
        ELSE CompareParts(PadParts(lp, maxLen), PadParts(cp, maxLen), 1)

\* version strings: 1.2, 1.2.0, v1.2.0, 1.10, 1.9, v1.9.1, 2, 1.02, 0.9.12,
\* 10.0, and two with a component beyond the range of int (2^63 and 2^64 + 1)
Versions ==
    { <<"1", ".", "2">>,
      <<"1", ".", "2", ".", "0">>,
      <<"v", "1", ".", "2", ".", "0">>,
      <<"1", ".", "1", "0">>,
      <<"1", ".", "9">>,
      <<"v", "1", ".", "9", ".", "1">>,
      <<"2">>,
      <<"1", ".", "0", "2">>,
      <<"0", ".", "9", ".", "1", "2">>,
      <<"1", "0", ".", "0">>,
      <<"9", "2", "2", "3", "3", "7", "2", "0", "3", "6", "8", "5", "4", "7", "7", "5", "8", "0", "8">>,
      <<"1", "8", "4", "4", "6", "7", "4", "4", "0", "7", "3", "7", "0", "9", "5", "5", "1", "6", "1", "7">> }

VersionInit ==
    /\ MainIdle /\ EventIdle /\ WatchIdle
    /\ tagName \in Versions /\ current \in Versions
    /\ latest = <<>> /\ available = FALSE

\* CheckForUpdates: the comparison of the release tag with the local version
CheckForUpdates ==
    /\ latest = <<>>
    /\ latest' = tagName
    /\ available' = isNewerVersion(latest', current)
    /\ UNCHANGED <<mainVars, eventVars, watchVars, tagName, current>>

VersionNext == CheckForUpdates

VersionSpec == VersionInit /\ [][VersionNext]_vars

\* the digits of a component without its leading zeros
RECURSIVE StripZeros(_)
StripZeros(d) == IF d # <<>> /\ Head(d) = "0" THEN StripZeros(Tail(d)) ELSE d

\* x < y for the numbers written by two digit strings: fewer significant
\* digits, or as many and a smaller digit at the first difference
NumberLess(x, y) ==
    LET a == StripZeros(x)
        b == StripZeros(y)
    IN  \/ Len(a) < Len(b)
        \/ /\ Len(a) = Len(b)
           /\ \E k \in 1..Len(a) :
                 /\ DigitVal(a[k]) < DigitVal(b[k])
                 /\ \A j \in 1..(k - 1) : a[j] = b[j]

\* the components of a version: the leading v dropped, split at the dots and
\* padded with 0 to n components
Components(v, n) == PadParts(Split(TrimPrefix(v, <<"v">>)), n)

\* the first component in which a and b differ as numbers is greater in a
FirstDifferenceGreater(a, b) ==
    LET n == IF Len(Components(a, 0)) > Len(Components(b, 0))
             THEN Len(Components(a, 0)) ELSE Len(Components(b, 0))
        ca == Components(a, n)
        cb == Components(b, n)
    IN  \E k \in 1..n :
            /\ NumberLess(cb[k], ca[k])
            /\ \A j \in 1..(k - 1) : ~NumberLess(ca[j], cb[j]) /\ ~NumberLess(cb[j], ca[j])

\* C30: isNewerVersion is a strict order on dotted numeric versions: never
\* true of a version and itself, never true in both directions, and true
\* exactly when the first differing numeric component of the first version
\* is greater than that of the second.
C30_StrictOrder ==
    (latest # <<>>) =>
        /\ (latest = current) => (available = FALSE)
        /\ ~(isNewerVersion(latest, current) /\ isNewerVersion(current, latest))
        /\ (available = TRUE) <=> FirstDifferenceGreater(latest, current)

\* the same for versions whose components are below 2^63
InIntRange(v) == \A k \in DOMAIN Components(v, 0) : Len(StripZeros(Components(v, 0)[k])) < 19
C30_InRange ==
    (latest # <<>> /\ InIntRange(latest) /\ InIntRange(current)) =>
        /\ (latest = current) => (available = FALSE)
        /\ ~(isNewerVersion(latest, current) /\ isNewerVersion(current, latest))
        /\ (available = TRUE) <=> FirstDifferenceGreater(latest, current)


\* ---------------------------------------------------------------------------
\* File system events of a watched folder
\* ---------------------------------------------------------------------------

\* strings.ToLower on the letters file names are written with
UpperCase == <<"A", "B", "C", "D", "E", "F", "G", "H", "I", "J", "K", "L", "M",
               "N", "O", "P", "Q", "R", "S", "T", "U", "V", "W", "X", "Y", "Z">>
LowerCase == <<"a", "b", "c", "d", "e", "f", "g", "h", "i", "j", "k", "l", "m",
               "n", "o", "p", "q", "r", "s", "t", "u", "v", "w", "x", "y", "z">>

ToLowerChar(c) ==
    IF \E n \in DOMAIN UpperCase : UpperCase[n] = c
    THEN LowerCase[CHOOSE n \in DOMAIN UpperCase : UpperCase[n] = c]
    ELSE c

ToLower(s) == [n \in DOMAIN s |-> ToLowerChar(s[n])]

\* strings.Contains
Contains(s, substr) ==
    \E n \in 0..(Len(s) - Len(substr)) : SubSeq(s, i + 1, i + Len(substr)) = substr

\* filepath.Base: the last element of the path, trailing separators removed
RECURSIVE StripTrailingSeparators(_)
StripTrailingSeparators(path) ==
    IF Len(path) > 0 /\ IsPathSeparator(path[Len(path)])
    THEN StripTrailingSeparators(SubSeq(path, 1, Len(path) - 1))
    ELSE path

RECURSIVE LastElementFrom(_, _)
LastElementFrom(path, k) ==
    IF k = 0 \/ IsPathSeparator(path[k])
    THEN SubSeq(path, k + 1, Len(path))
    ELSE LastElementFrom(path, k - 1)

FileBase(path) ==
    IF path = <<>> THEN <<".">>
    ELSE LET p == StripTrailingSeparators(path)
         IN  IF p = <<>> THEN <<"/">> ELSE LastElementFrom(p, Len(p))

videoExts ==
    { <<".", "m", "p", "4">>, <<".", "a", "v", "i">>, <<".", "m", "o", "v">>,
      <<".", "m", "k", "v">>, <<".", "w", "m", "v">>, <<".", "f", "l", "v">>,
      <<".", "w", "e", "b", "m">>, <<".", "m", "4", "v">> }

isVideoFile(filename) == ToLower(Ext(filename)) \in videoExts

\* files that appear in a watched folder without the pipeline writing them
NewClips ==
    { <<"b", ".", "m", "p", "4">>, <<"b", ".", "M", "P", "4">>, <<"b", ".", "m", "k", "v">>,
      <<"b", ".", "t", "x", "t">>, <<"d", "/", "b", ".", "m", "o", "v">>, <<"b">> }

\* every file the pipeline writes while it compresses the clip
PipelineFiles(source) == WritePaths(source, FALSE) \cup WritePaths(source, TRUE)

EventOps == {"Create", "Write"}

EventInit ==
    /\ MainIdle /\ VersionIdle /\ WatchIdle
    /\ clip \in Sources
    /\ eventOp \in EventOps
    /\ eventName \in PipelineFiles(clip) \cup NewClips
    /\ evpc = "event"
    /\ notified = <<>>

\* handleWatcherEvent up to the call of handleNewVideo
handleWatcherEvent ==
    /\ evpc = "event"
    /\ evpc' = IF /\ eventOp = "Create"
                  /\ isVideoFile(eventName)
                  /\ ~Contains(FileBase(eventName), Compressed)
               THEN "handleNewVideo"
               ELSE "done"
    /\ UNCHANGED <<mainVars, versionVars, watchVars, clip, eventOp, eventName, notified>>

\* handleNewVideo: os.Stat decides whether ShowNotification is started
handleNewVideo(statOk) ==
    /\ evpc = "handleNewVideo"
    /\ notified' = IF statOk THEN eventName ELSE <<>>
    /\ evpc' = "done"
    /\ UNCHANGED <<mainVars, versionVars, watchVars, clip, eventOp, eventName>>

EventNext ==
    \/ handleWatcherEvent
    \/ \E statOk \in BOOLEAN : handleNewVideo(statOk)

EventSpec == EventInit /\ [][EventNext]_vars

C25_CompressedSkipped ==
    Contains(FileBase(eventName), Compressed) => evpc # "handleNewVideo" /\ notified = <<>>


\* ---------------------------------------------------------------------------
\* The file watcher: StartMonitoring, StopMonitoring, RestartMonitoring,
\* UpdateMonitorPath and the goroutines running startFileWatcher
\* ---------------------------------------------------------------------------

\* goroutines running startFileWatcher that one run may start
MaxRuns == 3
\* calls of the monitoring API in one run
MaxCalls == 3

\* the MedalTV or NVIDIA folder, and the folders UpdateMonitorPath is given
PresetPaths == {"medal"}
CustomPaths == {"clips", "other"}
MonitorPaths == {""} \cup CustomPaths

\* the statements of monitorWatchers and of the handleWatcherEvent it calls
LoopPcs == {"loop", "evLock", "evUnlock"}

WatchFrame == UNCHANGED <<mainVars, versionVars, eventVars>>

\* sync.Mutex.Unlock by goroutine g: the mutex has no owner, it is released
\* whoever holds it; unlocking what g does not hold is recorded
Unlock(g) ==
    /\ watcherMutex' = 0
    /\ badUnlock' = (badUnlock \/ watcherMutex # g)

\* a write of v to a.isMonitoring: the goroutines reading the field without
\* the mutex in the loop of monitorWatchers may see it from now on
Published(v) ==
    [g \in DOMAIN visible |-> IF wpc[g] \in LoopPcs THEN visible[g] \cup {v} ELSE visible[g]]

\* go a.startFileWatcher()
Spawn ==
    /\ born < MaxRuns
    /\ born' = born + 1
    /\ wpc' = Append(wpc, "lock231")

\* startup: StartupInitialization starts the watcher
WatchInit ==
    /\ MainIdle /\ VersionIdle /\ EventIdle
    /\ watcherMutex = 0 /\ isMonitoring = FALSE /\ watchers = <<>> /\ monitoredPaths = {}
    /\ activePaths \in SUBSET (PresetPaths \cup {"clips"})
    /\ \E StartupInitialization \in BOOLEAN :
          /\ born = (IF StartupInitialization THEN 1 ELSE 0)
          /\ wpc = (IF StartupInitialization THEN <<"lock231">> ELSE <<>>)
          /\ visible = (IF StartupInitialization THEN <<{}>> ELSE <<>>)
    /\ calls = 0 /\ restartId = 0 /\ foreignClosed = {} /\ badUnlock = FALSE

\* stopAllWatchersLocked
stopAllWatchersLocked ==
    /\ isMonitoring' = FALSE
    /\ watchers' = <<>>
    /\ monitoredPaths' = {}

\* StartMonitoring: reads a.isMonitoring without the mutex
StartMonitoring(seen) ==
    /\ calls < MaxCalls
    /\ calls' = calls + 1
    /\ seen \in {isMonitoring, FALSE}
    /\ IF ~seen
       THEN Spawn /\ visible' = Append(visible, {})
       ELSE UNCHANGED <<born, wpc, visible>>
    /\ restartId' = 0
    /\ UNCHANGED <<watcherMutex, isMonitoring, watchers, monitoredPaths, activePaths,
                   foreignClosed, badUnlock>>
    /\ WatchFrame

\* StopMonitoring
StopMonitoring ==
    /\ calls < MaxCalls
    /\ calls' = calls + 1
    /\ watcherMutex = 0
    /\ stopAllWatchersLocked
    /\ visible' = Published(FALSE)
    /\ restartId' = 0
    /\ UNCHANGED <<watcherMutex, activePaths, wpc, born, foreignClosed, badUnlock>>
    /\ WatchFrame

\* RestartMonitoring
RestartMonitoring ==
    /\ calls < MaxCalls
    /\ calls' = calls + 1
    /\ watcherMutex = 0
    /\ restartId' = IF isMonitoring /\ DOMAIN watchers # {} /\ activePaths # {}
                    THEN born + 1
                    ELSE 0
    /\ stopAllWatchersLocked
    /\ Spawn
    /\ visible' = Append(Published(FALSE), {})
    /\ UNCHANGED <<watcherMutex, activePaths, foreignClosed, badUnlock>>
    /\ WatchFrame

\* UpdateMonitorPath
UpdateMonitorPath(path, saveOk, UseCustomPath) ==
    /\ calls < MaxCalls
    /\ calls' = calls + 1
    /\ watcherMutex = 0
    /\ stopAllWatchersLocked
    /\ activePaths' = (activePaths \cap PresetPaths)
                         \cup (IF UseCustomPath /\ path # "" THEN {path} ELSE {})
    /\ IF saveOk
       THEN Spawn /\ visible' = Append(Published(FALSE), {})
       ELSE /\ visible' = Published(FALSE)
            /\ UNCHANGED <<born, wpc>>
    /\ restartId' = 0
    /\ UNCHANGED <<watcherMutex, foreignClosed, badUnlock>>
    /\ WatchFrame

\* the variables a step of a goroutine leaves alone besides those it names
GoFrame == UNCHANGED <<activePaths, born, calls>> /\ WatchFrame

At(g, stmt) == g \in DOMAIN wpc /\ wpc[g] = stmt
Goto(g, stmt) == wpc' = [wpc EXCEPT ![g] = stmt]

\* line 231: a.watcherMutex.Lock()
Lock231(g) ==
    /\ At(g, "lock231")
    /\ watcherMutex = 0
    /\ watcherMutex' = g
    /\ Goto(g, "check")
    /\ UNCHANGED <<isMonitoring, watchers, monitoredPaths, visible, restartId,
                   foreignClosed, badUnlock>>
    /\ GoFrame

\* lines 234-249: the two early returns, else isMonitoring and monitoredPaths are set
CheckMonitoring(g) ==
    /\ At(g, "check")
    /\ IF isMonitoring \/ activePaths = {}
       THEN /\ Goto(g, "unlockRet")
            /\ UNCHANGED <<isMonitoring, monitoredPaths, visible>>
       ELSE /\ isMonitoring' = TRUE
            /\ monitoredPaths' = activePaths
            /\ visible' = Published(TRUE)
            /\ Goto(g, "create")
    /\ UNCHANGED <<watcherMutex, watchers, restartId, foreignClosed, badUnlock>>
    /\ GoFrame

\* lines 257-267: createWatcherForPath for each path; created are those that succeed
CreateWatchers(g, created) ==
    /\ At(g, "create")
    /\ created \subseteq monitoredPaths
    /\ watchers' = [p \in DOMAIN watchers \cup created |->
                        IF p \in created THEN g ELSE watchers[p]]
    /\ Goto(g, IF DOMAIN watchers' = {} THEN "cleanup" ELSE "unlock271")
    /\ restartId' = IF g = restartId /\ created # monitoredPaths THEN 0 ELSE restartId
    /\ UNCHANGED <<watcherMutex, isMonitoring, monitoredPaths, visible, foreignClosed, badUnlock>>
    /\ GoFrame

\* line 271: a.watcherMutex.Unlock(), then monitorWatchers is entered
Unlock271(g) ==
    /\ At(g, "unlock271")
    /\ Unlock(g)
    /\ visible' = [visible EXCEPT ![g] = {isMonitoring}]
    /\ Goto(g, "loop")
    /\ UNCHANGED <<isMonitoring, watchers, monitoredPaths, restartId, foreignClosed>>
    /\ GoFrame

\* line 425: for a.isMonitoring, read as false
LoopExit(g) ==
    /\ At(g, "loop")
    /\ FALSE \in visible[g]
    /\ Goto(g, "lock276")
    /\ UNCHANGED <<watcherMutex, isMonitoring, watchers, monitoredPaths, visible, restartId,
                   foreignClosed, badUnlock>>
    /\ GoFrame

\* lines 425-431: a.isMonitoring read as true, and the event of a new
\* directory is handed to handleWatcherEvent under recursive monitoring
LoopEvent(g) ==
    /\ At(g, "loop")
    /\ TRUE \in visible[g]
    /\ Goto(g, "evLock")
    /\ UNCHANGED <<watcherMutex, isMonitoring, watchers, monitoredPaths, visible, restartId,
                   foreignClosed, badUnlock>>
    /\ GoFrame

\* line 448: handleWatcherEvent locks the mutex
EventLock(g) ==
    /\ At(g, "evLock")
    /\ watcherMutex = 0
    /\ watcherMutex' = g
    /\ visible' = [visible EXCEPT ![g] = {isMonitoring}]
    /\ Goto(g, "evUnlock")
    /\ UNCHANGED <<isMonitoring, watchers, monitoredPaths, restartId, foreignClosed, badUnlock>>
    /\ GoFrame

\* lines 450-462: the directory is added to the watchers, the mutex is unlocked
EventUnlock(g) ==
    /\ At(g, "evUnlock")
    /\ Unlock(g)
    /\ Goto(g, "loop")
    /\ UNCHANGED <<isMonitoring, watchers, monitoredPaths, visible, restartId, foreignClosed>>
    /\ GoFrame

\* line 276: a.watcherMutex.Lock() without the mutex being taken
Lock276Skipped(g) ==
    /\ At(g, "lock276")
    /\ Goto(g, "cleanup")
    /\ UNCHANGED <<watcherMutex, isMonitoring, watchers, monitoredPaths, visible, restartId,
                   foreignClosed, badUnlock>>
    /\ GoFrame

\* line 276: a.watcherMutex.Lock()
Lock276(g) ==
    /\ At(g, "lock276")
    /\ watcherMutex = 0
    /\ watcherMutex' = g
    /\ Goto(g, "cleanup")
    /\ UNCHANGED <<isMonitoring, watchers, monitoredPaths, visible, restartId,
                   foreignClosed, badUnlock>>
    /\ GoFrame

\* lines 251-255: the deferred stopAllWatchers, isMonitoring = false, monitoredPaths reset
DeferredCleanup(g) ==
    /\ At(g, "cleanup")
    /\ foreignClosed' = foreignClosed \cup
                            {<<g, watchers[p]>> : p \in {q \in DOMAIN watchers : watchers[q] # g}}
    /\ watchers' = <<>>
    /\ isMonitoring' = FALSE
    /\ monitoredPaths' = {}
    /\ visible' = Published(FALSE)
    /\ Goto(g, "unlockRet")
    /\ UNCHANGED <<watcherMutex, restartId, badUnlock>>
    /\ GoFrame

\* line 232: the deferred a.watcherMutex.Unlock(), and the function returns
DeferredUnlock(g) ==
    /\ At(g, "unlockRet")
    /\ Unlock(g)
    /\ Goto(g, "done")
    /\ UNCHANGED <<isMonitoring, watchers, monitoredPaths, visible, restartId, foreignClosed>>
    /\ GoFrame

WatchNext ==
    \/ \E seen \in BOOLEAN : StartMonitoring(seen)
    \/ StopMonitoring
    \/ RestartMonitoring
    \/ \E path \in MonitorPaths, saveOk \in BOOLEAN, UseCustomPath \in BOOLEAN :
          UpdateMonitorPath(path, saveOk, UseCustomPath)
    \/ \E g \in 1..MaxRuns : Lock231(g)
    \/ \E g \in 1..MaxRuns : CheckMonitoring(g)
    \/ \E g \in 1..MaxRuns, created \in SUBSET (PresetPaths \cup CustomPaths) :
          CreateWatchers(g, created)
    \/ \E g \in 1..MaxRuns : Unlock271(g)
    \/ \E g \in 1..MaxRuns : LoopExit(g)
    \/ \E g \in 1..MaxRuns : LoopEvent(g)
    \/ \E g \in 1..MaxRuns : EventLock(g)
    \/ \E g \in 1..MaxRuns : EventUnlock(g)
    \/ \E g \in 1..MaxRuns : Lock276(g)
    \/ \E g \in 1..MaxRuns : DeferredCleanup(g)
    \/ \E g \in 1..MaxRuns : DeferredUnlock(g)

WatchSpec == WatchInit /\ [][WatchNext]_vars

\* the goroutines inside monitorWatchers
InLoop == {g \in DOMAIN wpc : wpc[g] \in LoopPcs}

\* C26: once RestartMonitoring has returned while monitoring was active, the
\* cleanup of an older goroutine never closes a watcher created by the
\* goroutine the restart started
C26_CleanupSparesNewWatchers ==
    restartId # 0 => \A pair \in foreignClosed : ~(pair[2] = restartId /\ pair[1] < restartId)

\* C27: at most one goroutine is inside the loop of monitorWatchers
C27_SingleLoop == Cardinality(InLoop) <= 1

\* C28: a goroutine running startFileWatcher never unlocks the mutex without
\* holding it; it has released it when the loop of monitorWatchers tests
\* isMonitoring or waits for an event, so that handleWatcherEvent, the only
\* holder inside the loop, can lock it; it holds it from line 231 to line 271
\* and while its deferred cleanup and deferred Unlock are pending; it does
\* not hold it once the function has returned
C28_MutexDiscipline ==
    /\ ~badUnlock
    /\ \A g \in DOMAIN wpc :
          /\ wpc[g] \in {"loop", "evLock", "lock276"} => watcherMutex # g
          /\ wpc[g] \in {"check", "create", "unlock271", "cleanup", "unlockRet"} => watcherMutex = g
          /\ wpc[g] = "done" => watcherMutex # g

\* a goroutine that monitored, was stopped, cleaned up and returned
C28_Witness ==
    \E g \in DOMAIN wpc : wpc[g] = "done" /\ visible[g] # {} /\ ~isMonitoring
====
